---- MODULE Spec2Model ----
(***************************************************************************)
(* Knowledge retrieval engine of CoachX (backend/app/ai/rag.py): the       *)
(* ingestion of a category-organised document tree into a ChromaDB         *)
(* collection, the similarity query over it and the formatting of the      *)
(* ranked results for the generation step; the text splitter the           *)
(* ingestion cuts documents with; the service that loads the knowledge     *)
(* base at startup and answers /rag/query; the embedding-model singleton   *)
(* under concurrent callers; and the two singleton getters called one      *)
(* after the other.                                                        *)
(***************************************************************************)
EXTENDS Integers, Sequences, FiniteSets, TLC

(***************************************************************************)
(* Program constants (rag.py, "# Constants").                              *)
(***************************************************************************)
EMBEDDING_MODEL == "all-MiniLM-L6-v2"
CHUNK_SIZE == 500
CHUNK_OVERLAP == 50

(***************************************************************************)
(* Bounds of the model.                                                    *)
(***************************************************************************)
\* most files present in the knowledge-base tree at one time
MaxDocs == 2
\* largest top_k a caller passes
MaxTopK == 2
\* threads that call get_embedding_model
MaxThreads == 3
\* longest text handed to the splitter on its own, and its largest chunk size
MaxTextLen == 5
MaxChunkSize == 3
\* longest result sequence handed to the formatter
MaxResults == 3
\* calls of the singleton getters made one after the other
MaxCalls == 4

\* the files the tree may hold, as (category directory, file stem): two of
\* one category and one of another; "_" is a legal character of both names,
\* and two of the paths spell the same text around it
Paths == { <<"a", "c">>, <<"a", "b_c">>, <<"a_b", "c">> }
SportNames == { path[1] : path \in Paths }
\* query texts; the empty one is what GET /rag/query?q= passes
Queries == {"jab technique", ""}

\* Optional[str]: None, or a supplied string
None == [some |-> FALSE, val |-> ""]
Some(s) == [some |-> TRUE, val |-> s]
\* the sport arguments a caller passes: none, the empty string, a category
SportArgs == {None, Some("")} \cup {Some(s) : s \in SportNames}

\* the threads of the process
Threads == 1..MaxThreads

VARIABLES
    kb_exists,        \* Path(KNOWLEDGE_BASE_DIR).exists()
    kb_files,         \* the *.md files of the category directories
    model_available,  \* SentenceTransformer(EMBEDDING_MODEL) can be constructed
    serving,          \* the startup event has completed: requests are served
    chroma_client,    \* _chroma_client is not None
    embedding_model,  \* _embedding_model is not None
    collection,       \* the collection COLLECTION_NAME of the client
    last,             \* the call that ran last, its arguments and its return
    callers,          \* the threads inside get_embedding_model: where each is
    model_instance,   \* the object _embedding_model refers to, 0 for None
    constructed,      \* how many times SentenceTransformer(...) has been called
    client_instance,  \* the object _chroma_client refers to, 0 for None
    opened,           \* how many times chromadb.Client(...) has been called
    calls,            \* the calls of the two getters so far and their returns
    fmt_results,      \* argument of format_context_for_llm
    fmt_context,      \* its return value
    split_in,         \* text and configuration of a text splitter
    split_out         \* what its split_text returns

\* the variables of the formatter and of the splitter on its own, which the
\* engine's calls leave alone
pure_vars == <<fmt_results, fmt_context, split_in, split_out>>
\* the variables of the two singletons seen through a sequence of calls
singleton_vars == <<client_instance, opened, calls>>
\* the variables of the callers of the getters, threads or not
thread_vars == <<callers, model_instance, constructed, singleton_vars>>

vars == <<kb_exists, kb_files, model_available, serving, chroma_client,
          embedding_model, collection, last, thread_vars, pure_vars>>

\* metadata={"description": "CoachX sports knowledge base"} of
\* client.create_collection, as (key, value) pairs: all that is recorded
\* about a collection besides its chunks
COLLECTION_METADATA == { <<"description", "CoachX sports knowledge base">> }

\* client.get_collection raises: the collection does not exist
Absent == [exists |-> FALSE, chunks |-> {}, metadata |-> {}]
Present(chunks) ==
    [exists |-> TRUE, chunks |-> chunks, metadata |-> COLLECTION_METADATA]

ChunkIds(coll) == {c.id : c \in coll.chunks}
Count(coll) == Cardinality(coll.chunks)

Min(a, b) == IF a <= b THEN a ELSE b

(***************************************************************************)
(* RecursiveCharacterTextSplitter(chunk_size, chunk_overlap, separators)   *)
(* of langchain 0.0.350, with keep_separator and strip_whitespace at their *)
(* defaults (True).  A text is a sequence of characters; positions count   *)
(* from 0, and a piece or a chunk is the interval [first, last) of the     *)
(* text it was cut from: with keep_separator every piece starts at a       *)
(* separator and pieces are joined by "", so a chunk is a substring.       *)
(***************************************************************************)
\* separators=["\n\n", "\n", " ", ""]
SEPARATORS == << << "\n", "\n" >>, << "\n" >>, << " " >>, << >> >>

\* the characters str.strip() removes
Whitespace == { " ", "\n" }

SetMin(S) == CHOOSE x \in S : \A y \in S : x <= y
SetMax(S) == CHOOSE x \in S : \A y \in S : y <= x

\* the separator stands at position p of text[a:b]
occurs_at(text, separator, p, b) ==
    /\ p + Len(separator) <= b
    /\ \A k \in 1..Len(separator) : text[p + k] = separator[k]

\* where re.split finds the separator in text[a:b]: leftmost first, the
\* search going on behind each match
RECURSIVE matches(_, _, _, _)
\* found: every place of text[a:b] at which the separator stands
matches_among(text, separator, found, b) ==
    IF found = {} \/ Len(separator) = 1 THEN found
    ELSE { SetMin(found) }
           \cup matches(text, separator, SetMin(found) + Len(separator), b)

matches(text, separator, a, b) ==
    matches_among(text, separator,
                  { p \in a..(b - 1) : occurs_at(text, separator, p, b) }, b)

\* _split_text: the first separator of the remaining ones (from index k)
\* that is "" or is found in the text; the last one when none is
usable_separators(text, a, b, k) ==
    { n \in k..Len(SEPARATORS) :
        \/ SEPARATORS[n] = << >>
        \/ matches(text, SEPARATORS[n], a, b) # {} }

separator_for(text, a, b, k) ==
    IF usable_separators(text, a, b, k) = {} THEN Len(SEPARATORS)
    ELSE SetMin(usable_separators(text, a, b, k))

\* _split_text_with_regex with keep_separator: the text is cut in front of
\* every match, each character apart for ""; empty pieces are dropped
cuts(text, a, b, separator) ==
    IF separator = << >> THEN a..b
    ELSE {a, b} \cup matches(text, separator, a, b)

\* the positions of text[a:b] that str.strip() cannot remove
solid(text, a, b) == { p \in a..(b - 1) : text[p + 1] \notin Whitespace }

\* mutant: the chunk loses its first character along with the whitespace
strip_one_more(text, a, b) ==
    IF solid(text, a, b) = {} THEN << >>
    ELSE << [ first |-> SetMin(solid(text, a, b)) + 1,
              last  |-> SetMax(solid(text, a, b)) + 1 ] >>

\* _join_docs: text[a:b].strip(), and no chunk at all when nothing is left
strip(text, a, b) ==
    IF solid(text, a, b) = {} THEN << >>
    ELSE << [ first |-> SetMin(solid(text, a, b)),
              last  |-> SetMax(solid(text, a, b)) + 1 ] >>

\* _merge_splits over the pieces between the cuts pieces, all shorter than
\* size, from cut i on: pieces are appended while the total stays within
\* size; the piece that would exceed it makes the pieces so far a chunk,
\* after which pieces are popped from the front while more than overlap is
\* held, or while the new piece still does not fit
\* the cut that ends the piece beginning at cut c
next_cut(pieces, c) == SetMin({ d \in pieces : d > c })

\* the front of the pieces held after the pops: f ends the chunk just
\* made, j the piece that did not fit
kept_from(pieces, i, f, j, size, overlap) ==
    SetMin({ c \in pieces :
               /\ i <= c /\ c <= f
               /\ ~ \/ f - c > overlap
                    \/ (j - c > size /\ f - c > 0) })

RECURSIVE merge_splits(_, _, _, _, _, _)
\* the chunk [i, f) and the chunks after it
merge_step(text, pieces, i, f, e, size, overlap) ==
    IF f = e THEN strip(text, i, e)
    ELSE strip(text, i, f)
           \o merge_splits(text, pieces,
                           kept_from(pieces, i, f, next_cut(pieces, f), size, overlap),
                           e, size, overlap)

merge_splits(text, pieces, i, e, size, overlap) ==
    IF i = e THEN << >>
    ELSE merge_step(text, pieces, i,
                    SetMax({ c \in pieces : i < c /\ c - i <= size }),
                    e, size, overlap)

\* _split_text(text[a:b], separators[k:]): the pieces shorter than size are
\* merged run by run; a longer piece is split by the separators that
\* remain, or becomes a chunk as it is when none remains
\* the piece beginning at cut c is not shorter than size
is_long(pieces, c, b, size) ==
    c < b /\ pieces \cap ((c + 1)..(c + size - 1)) = {}

\* the cut at which the run of shorter pieces beginning at cut c ends
run_end(pieces, c, b, size) ==
    SetMin({ d \in pieces : d > c /\ (d = b \/ is_long(pieces, d, b, size)) })

RECURSIVE recursive_split(_, _, _, _, _, _)
RECURSIVE split_pieces(_, _, _, _, _, _, _)
\* what the loop does from cut from on; stop is the end of the piece, or of
\* the run of shorter pieces, that begins there
split_step(text, pieces, from, stop, b, k, size, overlap) ==
    ( IF ~is_long(pieces, from, b, size)
      THEN merge_splits(text, { c \in pieces : from <= c /\ c <= stop },
                        from, stop, size, overlap)
      ELSE IF SEPARATORS[k] # << >> /\ k < Len(SEPARATORS)
      THEN recursive_split(text, from, stop, k + 1, size, overlap)
      ELSE << [ first |-> from, last |-> stop ] >> )
    \o split_pieces(text, pieces, stop, b, k, size, overlap)

split_pieces(text, pieces, from, b, k, size, overlap) ==
    IF from = b THEN << >>
    ELSE split_step(text, pieces, from,
                    IF is_long(pieces, from, b, size)
                    THEN next_cut(pieces, from)
                    ELSE run_end(pieces, from, b, size),
                    b, k, size, overlap)

\* _split_text(text[a:b], separators[k:]), n the separator chosen
split_with(text, a, b, n, size, overlap) ==
    split_pieces(text, cuts(text, a, b, SEPARATORS[n]), a, b, n, size, overlap)

recursive_split(text, a, b, k, size, overlap) ==
    split_with(text, a, b, separator_for(text, a, b, k), size, overlap)

\* TextSplitter.__init__(chunk_size, chunk_overlap): ValueError("Got a
\* larger chunk overlap (...) than chunk size (...), should be smaller.")
\* when chunk_overlap > chunk_size, and nothing else is looked at
text_splitter_rejects(size, overlap) == overlap > size

\* text_splitter.split_text(text)
splitter_split_text(text, size, overlap) ==
    recursive_split(text, 0, Len(text), 1, size, overlap)

\* the content of a document: letters, with line feeds at the positions
\* breaks
Plain(length) == [ length |-> length, breaks |-> {} ]
\* paragraphs of letters, each closed by a blank line
Paragraphs(length, every) ==
    [ length |-> length,
      breaks |-> { p \in 0..(length - 1) : p % every >= every - 2 } ]
Text(content) ==
    [ p \in 1..content.length |->
        IF (p - 1) \in content.breaks THEN "\n" ELSE "x" ]

\* the documents written to the tree: of 400 and of 1200 letters without
\* any separator and, where ingestion is examined on its own, also of 1200
\* characters in paragraphs of 300 and an empty file
Contents == { Plain(400), Plain(1200) }
Documents == Contents \cup { Paragraphs(1200, 300), Plain(0) }

\* the chunks of the documents of the tree, cut with CHUNK_SIZE and
\* CHUNK_OVERLAP; a chunk is kept as the interval of its document
chunks_of(content, chunks) ==
    [ n \in 1..Len(chunks) |->
        [ content |-> content,
          first   |-> chunks[n].first,
          last    |-> chunks[n].last ] ]

ChunkTable ==
    [ content \in Documents |->
        chunks_of(content,
                  splitter_split_text(Text(content), CHUNK_SIZE, CHUNK_OVERLAP)) ]

split_text(content) == ChunkTable[content]

(***************************************************************************)
(* SentenceTransformer.encode: a deterministic map of a text to a point of *)
(* the embedding space (one dimension here), and the squared L2 distance   *)
(* ChromaDB ranks by.                                                      *)
(***************************************************************************)
encode_chunk(text) == (text.first \div CHUNK_OVERLAP + text.last \div CHUNK_SIZE) % 7
encode_query(query) == IF query = "jab technique" THEN 1 ELSE 5
distance(u, v) == (u - v) * (u - v)

(***************************************************************************)
(* get_embedding_model: the singleton is constructed on the first call;    *)
(* SentenceTransformer(EMBEDDING_MODEL) raises when the model cannot be    *)
(* loaded, and _embedding_model stays None.                                *)
(***************************************************************************)
\* mutant: the new model is returned without being kept in the global
get_embedding_model_unassigned(loaded, available) ==
    IF loaded THEN [ raised |-> FALSE, loaded |-> TRUE ]
    ELSE IF available THEN [ raised |-> FALSE, loaded |-> FALSE ]
    ELSE [ raised |-> TRUE, loaded |-> FALSE ]

get_embedding_model(loaded, available) ==
    IF loaded THEN [ raised |-> FALSE, loaded |-> TRUE ]
    ELSE IF available THEN [ raised |-> FALSE, loaded |-> TRUE ]
    ELSE [ raised |-> TRUE, loaded |-> FALSE ]

\* get_chroma_client: the same pattern around chromadb.Client(Settings(...))
get_chroma_client(opened_before, can_open) ==
    IF opened_before THEN [ raised |-> FALSE, opened |-> TRUE ]
    ELSE IF can_open THEN [ raised |-> FALSE, opened |-> TRUE ]
    ELSE [ raised |-> TRUE, opened |-> FALSE ]

(***************************************************************************)
(* load_knowledge_base: the walk of the tree.                              *)
(***************************************************************************)
\* mutant: the id is built from the running counter instead of the chunk index
chunk_id_by_doc_id(sport_name, stem, i, doc_id) ==
    sport_name \o "_" \o stem \o "_" \o ToString(doc_id)

\* f"{sport_name}_{md_file.stem}_{i}"; doc_id is the running counter of the
\* walk, in scope but not part of the id
chunk_id(sport_name, stem, i, doc_id) ==
    sport_name \o "_" \o stem \o "_" \o ToString(i)

\* md_file.name
file_name(stem) == stem \o ".md"

\* mutant: enumerate(chunks, 1), the chunk index counted from one
file_entries_from_one(md_file, doc_id) ==
    LET chunks == split_text(md_file.content)
    IN  [ n \in 1..Len(chunks) |->
            [ document |-> chunks[n],
              metadata |-> [ sport        |-> md_file.sport,
                             source       |-> file_name(md_file.stem),
                             chunk_index  |-> n,
                             total_chunks |-> Len(chunks) ],
              id       |-> chunk_id(md_file.sport, md_file.stem, n - 1,
                                    doc_id + n - 1) ] ]

\* the body of "for md_file in sport_dir.glob('*.md')" for one file: one
\* entry (document, metadata, id) per chunk, doc_id advancing by one each
file_entries(md_file, doc_id) ==
    LET chunks == split_text(md_file.content)
    IN  [ n \in 1..Len(chunks) |->
            [ document |-> chunks[n],
              metadata |-> [ sport        |-> md_file.sport,
                             source       |-> file_name(md_file.stem),
                             chunk_index  |-> n - 1,
                             total_chunks |-> Len(chunks) ],
              id       |-> chunk_id(md_file.sport, md_file.stem, n - 1,
                                    doc_id + n - 1) ] ]

\* mutant: the loops end after the first file
walk_first_file(order, doc_id) ==
    IF order = << >> THEN << >> ELSE file_entries(Head(order), doc_id)

\* the two nested loops over an iteration order of the files
RECURSIVE walk(_, _)
walk(order, doc_id) ==
    IF order = << >> THEN << >>
    ELSE LET entries == file_entries(Head(order), doc_id)
         IN  entries \o walk(Tail(order), doc_id + Len(entries))

\* "with open(md_file, 'r', encoding='utf-8') as f: content = f.read()" is
\* outside any try block: the walk gets through only if every file is read
all_read(order) == \A n \in 1..Len(order) : order[n].readable

\* iterdir() and glob() yield in arbitrary order: every order of the files
\* that keeps the files of one directory together
RECURSIVE Orders(_)
Orders(files) ==
    IF files = {} THEN { << >> }
    ELSE UNION { { <<f>> \o o : o \in Orders(files \ {f}) } : f \in files }

WalkOrders(files) ==
    { o \in Orders(files) :
        \A i, j, k \in 1..Len(o) :
            (i < j /\ j < k /\ o[i].sport = o[k].sport) => o[j].sport = o[i].sport }

(***************************************************************************)
(* ChromaDB 0.4.18 (requirements.txt) as rag.py uses it.                   *)
(***************************************************************************)
\* collection.add(documents, embeddings, metadatas, ids): an empty id list
\* and a duplicated id are rejected (ValueError, DuplicateIDError) and
\* nothing is stored; an id already stored is left as it is
collection_add(coll, entries) ==
    LET ids == { entries[n].id : n \in 1..Len(entries) }
        new == { [ id        |-> entries[n].id,
                   document  |-> entries[n].document,
                   embedding |-> encode_chunk(entries[n].document),
                   metadata  |-> entries[n].metadata ] : n \in 1..Len(entries) }
    IN  IF Len(entries) = 0 \/ Cardinality(ids) < Len(entries)
        THEN [ raised |-> TRUE, collection |-> coll ]
        ELSE [ raised |-> FALSE,
               collection |-> Present(coll.chunks \cup
                                { c \in new : c.id \notin ChunkIds(coll) }) ]

\* mutant: the collection is deleted before force_reload is looked at
existing_collection_deleted_first(coll, force_reload) ==
    IF ~coll.exists THEN [ skip |-> FALSE, collection |-> coll ]
    ELSE [ skip |-> ~force_reload, collection |-> Absent ]

\* the try block on the existing collection: return without reloading
\* unless force_reload, which deletes the collection
existing_collection(coll, force_reload) ==
    IF ~coll.exists THEN [ skip |-> FALSE, collection |-> coll ]
    ELSE IF ~force_reload THEN [ skip |-> TRUE, collection |-> coll ]
    ELSE [ skip |-> FALSE, collection |-> Absent ]

\* mutant: a forced reload reuses the existing collection (get_or_create)
\* instead of deleting it
load_knowledge_base_reusing(coll, force_reload, root_exists, order) ==
    LET reused == IF coll.exists THEN coll ELSE Present({})
        added  == collection_add(reused, walk(order, 0))
    IN  IF coll.exists /\ ~force_reload
        THEN [ outcome |-> "skipped", collection |-> coll ]
        ELSE IF ~root_exists \/ ~all_read(order)
        THEN [ outcome |-> "raised", collection |-> reused ]
        ELSE IF added.raised
        THEN [ outcome |-> "raised", collection |-> added.collection ]
        ELSE [ outcome |-> "loaded", collection |-> added.collection ]

\* mutant: an unforced load of an existing collection synchronises it with
\* the tree, as a forced one does
load_knowledge_base_synchronising(coll, force_reload, root_exists, order) ==
    LET created == Present({})
        added   == collection_add(created, walk(order, 0))
    IN  IF ~root_exists \/ ~all_read(order)
        THEN [ outcome |-> "raised", collection |-> created ]
        ELSE IF added.raised
        THEN [ outcome |-> "raised", collection |-> added.collection ]
        ELSE [ outcome |-> "loaded", collection |-> added.collection ]

\* mutant: collection.add is called inside the loop, once per file, so the
\* files walked before one that cannot be read are already stored
load_knowledge_base_adding_per_file(coll, force_reload, root_exists, order) ==
    LET checked == existing_collection(coll, force_reload)
        created == Present({})
        added   == collection_add(created, walk(order, 0))
        stop    == SetMin({ n \in 1..Len(order) : ~order[n].readable }
                            \cup { Len(order) + 1 })
        partial == collection_add(created, walk(SubSeq(order, 1, stop - 1), 0))
    IN  IF checked.skip
        THEN [ outcome |-> "skipped", collection |-> checked.collection ]
        ELSE IF ~root_exists
        THEN [ outcome |-> "raised", collection |-> created ]
        ELSE IF ~all_read(order)
        THEN [ outcome |-> "raised", collection |-> partial.collection ]
        ELSE IF added.raised
        THEN [ outcome |-> "raised", collection |-> added.collection ]
        ELSE [ outcome |-> "loaded", collection |-> added.collection ]

\* load_knowledge_base(force_reload) over one iteration order of the tree:
\* what it leaves in the store and how it ends.  create_collection raises
\* when the collection is still there, and comes before the check of the
\* root path, so a missing root leaves a new, empty collection behind; so
\* does a file that cannot be read, since the one collection.add comes
\* after the whole walk
load_knowledge_base(coll, force_reload, root_exists, order) ==
    LET checked == existing_collection(coll, force_reload)
        created == Present({})
        added   == collection_add(created, walk(order, 0))
    IN  IF checked.skip
        THEN [ outcome |-> "skipped", collection |-> checked.collection ]
        ELSE IF checked.collection.exists
        THEN [ outcome |-> "raised", collection |-> checked.collection ]
        ELSE IF ~root_exists
        THEN [ outcome |-> "raised", collection |-> created ]
        ELSE IF ~all_read(order)
        THEN [ outcome |-> "raised", collection |-> created ]
        ELSE IF added.raised
        THEN [ outcome |-> "raised", collection |-> added.collection ]
        ELSE [ outcome |-> "loaded", collection |-> added.collection ]

(***************************************************************************)
(* query_knowledge.                                                        *)
(***************************************************************************)
\* mutant: the where clause is never built
where_filter_dropped(sport) == None

\* {"sport": sport} if sport else None: None and "" are both falsy
where_filter(sport) ==
    IF sport.some /\ sport.val # "" THEN Some(sport.val) ELSE None

\* the chunks a where clause on the sport metadata admits
where_matches(coll, where) ==
    IF where.some
    THEN { c \in coll.chunks : c.metadata.sport = where.val }
    ELSE coll.chunks

\* the k nearest of the candidates, nearest first; equal distances come in
\* either order
RECURSIVE nearest(_, _, _)
nearest(candidates, query_embedding, k) ==
    IF k = 0 \/ candidates = {} THEN { << >> }
    ELSE LET closest == { c \in candidates :
                            \A d \in candidates :
                                distance(query_embedding, c.embedding)
                                    <= distance(query_embedding, d.embedding) }
         IN  UNION { { <<c>> \o rest :
                         rest \in nearest(candidates \ {c}, query_embedding, k - 1) }
                     : c \in closest }

\* collection.query(query_embeddings, n_results, where): n_results <= 0 is
\* rejected; otherwise the n_results nearest admitted chunks, all of them
\* when fewer are admitted
collection_query(coll, query_embedding, n_results, where) ==
    IF n_results <= 0
    THEN { [ raised |-> TRUE, rows |-> << >> ] }
    ELSE { [ raised |-> FALSE, rows |-> rows ] :
             rows \in nearest(where_matches(coll, where), query_embedding,
                              Min(n_results, Cardinality(where_matches(coll, where)))) }

\* mutant: the loop stops one row short
format_results_short(rows, query_embedding) ==
    [ n \in 1..(Len(rows) - 1) |->
        [ text     |-> rows[n].document,
          metadata |-> rows[n].metadata,
          distance |-> distance(query_embedding, rows[n].embedding) ] ]

\* mutant: each row is put in front of the rows formatted before it
format_results_reversed(rows, query_embedding) ==
    [ n \in 1..Len(rows) |->
        [ text     |-> rows[Len(rows) + 1 - n].document,
          metadata |-> rows[Len(rows) + 1 - n].metadata,
          distance |-> distance(query_embedding, rows[Len(rows) + 1 - n].embedding) ] ]

\* mutant: the metadata of a result is taken from the row at the other end
format_results_crossed(rows, query_embedding) ==
    [ n \in 1..Len(rows) |->
        [ text     |-> rows[n].document,
          metadata |-> rows[Len(rows) + 1 - n].metadata,
          distance |-> distance(query_embedding, rows[n].embedding) ] ]

\* the "Format results" loop: one dictionary per row, in the order of the rows
format_results(rows, query_embedding) ==
    [ n \in 1..Len(rows) |->
        [ text     |-> rows[n].document,
          metadata |-> rows[n].metadata,
          distance |-> distance(query_embedding, rows[n].embedding) ] ]

\* mutant: the exception of client.get_collection leaves the function
query_knowledge_unguarded(coll, query, sport, top_k) ==
    IF ~coll.exists
    THEN { [ outcome |-> "raised", results |-> << >>, encoded |-> FALSE ] }
    ELSE { IF r.raised
           THEN [ outcome |-> "raised", results |-> << >>, encoded |-> TRUE ]
           ELSE [ outcome |-> "ok",
                  results |-> format_results(r.rows, encode_query(query)),
                  encoded |-> TRUE ] :
             r \in collection_query(coll, encode_query(query), top_k,
                                    where_filter(sport)) }

\* query_knowledge(query, sport, top_k): the returns the call can produce,
\* and whether it came to embedding_model.encode([query]).  Only
\* client.get_collection is inside a try block: its exception is logged and
\* [] returned
query_knowledge(coll, query, sport, top_k) ==
    IF ~coll.exists
    THEN { [ outcome |-> "ok", results |-> << >>, encoded |-> FALSE ] }
    ELSE { IF r.raised
           THEN [ outcome |-> "raised", results |-> << >>, encoded |-> TRUE ]
           ELSE [ outcome |-> "ok",
                  results |-> format_results(r.rows, encode_query(query)),
                  encoded |-> TRUE ] :
             r \in collection_query(coll, encode_query(query), top_k,
                                    where_filter(sport)) }

(***************************************************************************)
(* The state machine.                                                      *)
(***************************************************************************)
NotCalled == [called |-> FALSE, raised |-> FALSE, value |-> << >>]
Returned(v) == [called |-> TRUE, raised |-> FALSE, value |-> v]
\* the call ended with an exception instead of a return value
Raised == [called |-> FALSE, raised |-> TRUE, value |-> << >>]

\* what a call leaves on record: its arguments, how it ended and what it
\* returned; for the checks, also the collection as it was when the call
\* began (before) and, for a load, the load that ran right before it (prev)
NoPrev == [ op |-> "", force_reload |-> FALSE, outcome |-> "" ]
Before(coll) == [ exists |-> coll.exists, ids |-> ChunkIds(coll) ]

Call(op, force_reload, query, sport, top_k, outcome, results, prev, before) ==
    [ op |-> op, force_reload |-> force_reload, query |-> query, sport |-> sport,
      top_k |-> top_k, outcome |-> outcome, results |-> results,
      prev |-> prev, before |-> before, encoded |-> FALSE ]

\* the record of a query_knowledge call
QueryCall(query, sport, top_k, r, coll) ==
    [ Call("query", FALSE, query, sport, top_k, r.outcome, r.results,
           NoPrev, Before(coll)) EXCEPT !.encoded = r.encoded ]

NoCall(op) == Call(op, FALSE, "", None, 0, "", << >>, NoPrev, Before(Absent))

PrevLoad(call) ==
    IF call.op = "load"
    THEN [ op |-> call.op, force_reload |-> call.force_reload,
           outcome |-> call.outcome ]
    ELSE NoPrev

\* a thread that is not inside get_embedding_model and has not been there
Outside == [ pc |-> "outside", made |-> 0, got |-> 0 ]

Init ==
    /\ kb_exists = FALSE
    /\ kb_files = {}
    /\ model_available = TRUE
    /\ serving = FALSE
    /\ chroma_client = FALSE
    /\ embedding_model = FALSE
    /\ collection = Absent
    /\ last = NoCall("import")
    /\ callers = [ t \in Threads |-> Outside ]
    /\ model_instance = 0
    /\ constructed = 0
    /\ client_instance = 0
    /\ opened = 0
    /\ calls = << >>
    /\ fmt_results = << >>
    /\ fmt_context = NotCalled
    /\ split_in = [ text |-> << >>, chunk_size |-> CHUNK_SIZE,
                    chunk_overlap |-> CHUNK_OVERLAP ]
    /\ split_out = NotCalled

\* a file of a category directory; open(md_file, 'r', encoding='utf-8') and
\* f.read() succeed on it when it is readable
File(sport, stem, content, readable) ==
    [sport |-> sport, stem |-> stem, content |-> content, readable |-> readable]

\* the knowledge-base tree is edited between calls
CreateRoot ==
    /\ ~kb_exists
    /\ kb_exists' = TRUE
    /\ last' = NoCall("tree")
    /\ UNCHANGED <<kb_files, model_available, serving, chroma_client,
                   embedding_model, collection, thread_vars, pure_vars>>

RemoveRoot ==
    /\ kb_exists
    /\ kb_exists' = FALSE
    /\ kb_files' = {}
    /\ last' = NoCall("tree")
    /\ UNCHANGED <<model_available, serving, chroma_client, embedding_model,
                   collection, thread_vars, pure_vars>>

\* a file is created, or an existing one is rewritten, with one of the
\* given contents
Write(contents) ==
    /\ kb_exists
    /\ \E path \in Paths, content \in contents :
         LET sport == path[1]
             stem == path[2]
             others == { f \in kb_files : ~(f.sport = sport /\ f.stem = stem) }
         IN  /\ Cardinality(others) < MaxDocs
             /\ File(sport, stem, content, TRUE) \notin kb_files
             /\ kb_files' = others \cup { File(sport, stem, content, TRUE) }
    /\ last' = NoCall("tree")
    /\ UNCHANGED <<kb_exists, model_available, serving, chroma_client,
                   embedding_model, collection, thread_vars, pure_vars>>

DeleteFile ==
    /\ \E f \in kb_files : kb_files' = kb_files \ {f}
    /\ last' = NoCall("tree")
    /\ UNCHANGED <<kb_exists, model_available, serving, chroma_client,
                   embedding_model, collection, thread_vars, pure_vars>>

WriteFile == Write(Contents)

\* load_knowledge_base(force_reload): the client and the model are obtained
\* first, and a model that cannot be constructed ends the call there
Load ==
    \E force_reload \in BOOLEAN, order \in WalkOrders(kb_files) :
        LET m == get_embedding_model(embedding_model, model_available)
            r == IF m.raised
                 THEN [ outcome |-> "raised", collection |-> collection ]
                 ELSE load_knowledge_base(collection, force_reload, kb_exists, order)
        IN  /\ chroma_client' = TRUE
            /\ embedding_model' = m.loaded
            /\ collection' = r.collection
            /\ last' = Call("load", force_reload, "", None, 0, r.outcome, << >>,
                            PrevLoad(last), Before(collection))
            /\ UNCHANGED <<kb_exists, kb_files, model_available, serving, thread_vars, pure_vars>>

\* mutant: the collection is obtained with get_or_create_collection, which
\* creates it when it is not there
QueryCreating ==
    \E query \in Queries, sport \in SportArgs, top_k \in 0..MaxTopK :
        LET m == get_embedding_model(embedding_model, model_available)
        IN  \E r \in IF m.raised
                      THEN { [ outcome |-> "raised", results |-> << >>,
                               encoded |-> FALSE ] }
                      ELSE query_knowledge(collection, query, sport, top_k) :
                /\ chroma_client' = TRUE
                /\ embedding_model' = m.loaded
                /\ last' = QueryCall(query, sport, top_k, r, collection)
                /\ collection' = IF m.raised \/ collection.exists
                                 THEN collection ELSE Present({})
                /\ UNCHANGED <<kb_exists, kb_files, model_available, serving,
                               thread_vars, pure_vars>>

\* query_knowledge(query, sport, top_k): the client and the model are
\* obtained before the try block around get_collection
Query ==
    \E query \in Queries, sport \in SportArgs, top_k \in 0..MaxTopK :
        LET m == get_embedding_model(embedding_model, model_available)
        IN  \E r \in IF m.raised
                      THEN { [ outcome |-> "raised", results |-> << >>,
                               encoded |-> FALSE ] }
                      ELSE query_knowledge(collection, query, sport, top_k) :
                /\ chroma_client' = TRUE
                /\ embedding_model' = m.loaded
                /\ last' = QueryCall(query, sport, top_k, r, collection)
                /\ UNCHANGED <<kb_exists, kb_files, model_available, serving,
                               collection, thread_vars, pure_vars>>

Next == CreateRoot \/ RemoveRoot \/ WriteFile \/ DeleteFile \/ Load \/ Query

Spec == Init /\ [][Next]_vars

(***************************************************************************)
(* Ingestion over a tree with files that cannot be read.                   *)
(***************************************************************************)
\* the permissions or the encoding of a file change: open() or f.read()
\* raises on it from now on, or no longer does
Chmod ==
    /\ \E f \in kb_files :
         kb_files' = (kb_files \ {f})
                       \cup { File(f.sport, f.stem, f.content, ~f.readable) }
    /\ last' = NoCall("tree")
    /\ UNCHANGED <<kb_exists, model_available, serving, chroma_client,
                   embedding_model, collection, thread_vars, pure_vars>>

WriteDocument == Write(Documents)

NextIngest ==
    CreateRoot \/ RemoveRoot \/ WriteDocument \/ DeleteFile \/ Chmod \/ Load

SpecIngest == Init /\ [][NextIngest]_vars

(***************************************************************************)
(* The service (backend/app/main.py): the process starts, runs the startup *)
(* event and serves /rag/query.                                            *)
(***************************************************************************)
\* the model files become unavailable (cache removed, no network), or
\* available again
ModelLost ==
    /\ model_available
    /\ model_available' = FALSE
    /\ last' = NoCall("model")
    /\ UNCHANGED <<kb_exists, kb_files, serving, chroma_client, embedding_model,
                   collection, thread_vars, pure_vars>>

ModelRestored ==
    /\ ~model_available
    /\ model_available' = TRUE
    /\ last' = NoCall("model")
    /\ UNCHANGED <<kb_exists, kb_files, serving, chroma_client, embedding_model,
                   collection, thread_vars, pure_vars>>

\* mutant: an exception of load_knowledge_base leaves the startup event
startup_event_halting(available, root_exists, order) ==
    LET m == get_embedding_model(FALSE, available)
        r == IF m.raised
             THEN [ outcome |-> "raised", collection |-> Absent ]
             ELSE load_knowledge_base(Absent, FALSE, root_exists, order)
    IN  [ outcome |-> r.outcome, collection |-> r.collection,
          loaded |-> m.loaded, complete |-> r.outcome # "raised" ]

\* startup_event in a new process: _chroma_client and _embedding_model are
\* None, and the client that get_chroma_client builds, chromadb.Client with
\* Settings(persist_directory=...) and is_persistent left at its default
\* False, keeps its data in memory, so it starts without any collection.
\* Whatever load_knowledge_base(force_reload=False) raises is caught and
\* logged, and the event runs to "Application startup complete"
startup_event(available, root_exists, order) ==
    LET m == get_embedding_model(FALSE, available)
        r == IF m.raised
             THEN [ outcome |-> "raised", collection |-> Absent ]
             ELSE load_knowledge_base(Absent, FALSE, root_exists, order)
    IN  [ outcome |-> r.outcome, collection |-> r.collection,
          loaded |-> m.loaded, complete |-> TRUE ]

\* the process is started, or stopped and started again
Startup ==
    \E order \in WalkOrders(kb_files) :
        LET r == startup_event(model_available, kb_exists, order)
        IN  /\ chroma_client' = TRUE
            /\ embedding_model' = r.loaded
            /\ collection' = r.collection
            /\ serving' = r.complete
            /\ last' = Call("startup", FALSE, "", None, 0, r.outcome, << >>,
                            NoPrev, Before(collection))
            /\ UNCHANGED <<kb_exists, kb_files, model_available, thread_vars, pure_vars>>

\* GET /rag/query: rag_query hands q, sport and top_k to query_knowledge
RagQuery == serving /\ Query

NextService ==
    \/ CreateRoot \/ RemoveRoot \/ WriteFile \/ DeleteFile
    \/ ModelLost \/ ModelRestored \/ Startup \/ RagQuery

SpecService == Init /\ [][NextService]_vars

(***************************************************************************)
(* get_embedding_model called from several threads.  The function takes no *)
(* lock, and the interpreter may switch threads between any two of its     *)
(* statements (the constructor reads the model files and runs for          *)
(* seconds), so each statement is a step of its own.                       *)
(***************************************************************************)
\* what no statement of get_embedding_model touches
thread_frame == <<kb_exists, kb_files, model_available, serving, chroma_client,
                  collection, last, singleton_vars, pure_vars>>

\* a thread calls get_embedding_model()
Enter(t) ==
    /\ callers[t].pc = "outside"
    /\ callers' = [callers EXCEPT ![t].pc = "test"]
    /\ UNCHANGED <<model_instance, constructed, embedding_model, thread_frame>>

\* if _embedding_model is None:
Test(t) ==
    /\ callers[t].pc = "test"
    /\ callers' = [callers EXCEPT
                     ![t].pc = IF model_instance = 0 THEN "construct" ELSE "return"]
    /\ UNCHANGED <<model_instance, constructed, embedding_model, thread_frame>>

\* SentenceTransformer(EMBEDDING_MODEL): a new object
Construct(t) ==
    /\ callers[t].pc = "construct"
    /\ model_available
    /\ constructed' = constructed + 1
    /\ callers' = [callers EXCEPT ![t].pc = "assign", ![t].made = constructed + 1]
    /\ UNCHANGED <<model_instance, embedding_model, thread_frame>>

\* _embedding_model = <the new object>
Assign(t) ==
    /\ callers[t].pc = "assign"
    /\ model_instance' = callers[t].made
    /\ embedding_model' = TRUE
    /\ callers' = [callers EXCEPT ![t].pc = "return"]
    /\ UNCHANGED <<constructed, thread_frame>>

\* return _embedding_model
Return(t) ==
    /\ callers[t].pc = "return"
    /\ callers' = [callers EXCEPT ![t].pc = "returned", ![t].got = model_instance]
    /\ UNCHANGED <<model_instance, constructed, embedding_model, thread_frame>>

NextThreads ==
    \E t \in Threads :
        Enter(t) \/ Test(t) \/ Construct(t) \/ Assign(t) \/ Return(t)

SpecThreads == Init /\ [][NextThreads]_vars

(***************************************************************************)
(* The two getters called one after the other in one process, by           *)
(* load_knowledge_base, query_knowledge and get_collection_stats: each     *)
(* call runs to its end before the next begins.                            *)
(***************************************************************************)
\* what a call leaves in the sequence of calls: the getter, whether it
\* raised, and the object it returned (0 when it raised)
GetterCall(fn, raised, value) == [ fn |-> fn, raised |-> raised, value |-> value ]

singleton_frame == <<kb_exists, kb_files, model_available, serving, collection,
                     last, callers, pure_vars>>

\* get_embedding_model(), from the test of the global to the return
GetEmbeddingModel ==
    /\ Len(calls) < MaxCalls
    /\ LET m == get_embedding_model(model_instance # 0, model_available)
           made == IF model_instance = 0 /\ ~m.raised
                   THEN constructed + 1 ELSE constructed
           value == IF m.raised THEN 0
                    ELSE IF model_instance = 0 THEN made ELSE model_instance
       IN  /\ constructed' = made
           /\ model_instance' = IF m.loaded THEN value ELSE 0
           /\ embedding_model' = m.loaded
           /\ calls' = Append(calls, GetterCall("get_embedding_model", m.raised, value))
    /\ UNCHANGED <<chroma_client, client_instance, opened, singleton_frame>>

\* get_chroma_client(); chromadb.Client(...) may raise (the settings are
\* refused, a dependency of the store is missing)
GetChromaClient ==
    /\ Len(calls) < MaxCalls
    /\ \E can_open \in BOOLEAN :
         LET c == get_chroma_client(client_instance # 0, can_open)
             made == IF client_instance = 0 /\ ~c.raised
                     THEN opened + 1 ELSE opened
             value == IF c.raised THEN 0
                      ELSE IF client_instance = 0 THEN made ELSE client_instance
         IN  /\ opened' = made
             /\ client_instance' = IF c.opened THEN value ELSE 0
             /\ chroma_client' = c.opened
             /\ calls' = Append(calls, GetterCall("get_chroma_client", c.raised, value))
    /\ UNCHANGED <<embedding_model, model_instance, constructed, singleton_frame>>

NextSingletons ==
    GetEmbeddingModel \/ GetChromaClient \/ ModelLost \/ ModelRestored

SpecSingletons == Init /\ [][NextSingletons]_vars

(***************************************************************************)
(* format_context_for_llm.  Strings are sequences of characters here, so   *)
(* that the layout of the returned block can be examined.                  *)
(***************************************************************************)
Digit == << "0", "1", "2", "3", "4", "5", "6", "7", "8", "9" >>

\* str(i) of the f-string, i >= 0
RECURSIVE str(_)
str(i) == IF i < 10 THEN << Digit[i + 1] >>
          ELSE str(i \div 10) \o << Digit[(i % 10) + 1] >>

\* "No relevant information found."
NO_RESULTS == << "N", "o", " ", "r", "e", "l", "e", "v", "a", "n", "t", " ",
                 "i", "n", "f", "o", "r", "m", "a", "t", "i", "o", "n", " ",
                 "f", "o", "u", "n", "d", "." >>

\* 'unknown'
UNKNOWN == << "u", "n", "k", "n", "o", "w", "n" >>

\* metadata.get(key, default)
get(metadata, key, default) ==
    IF key \in DOMAIN metadata THEN metadata[key] ELSE default

\* f"[{i}] Source: {sport}/{source}\n{text}"
context_part(i, result) ==
    << "[" >> \o str(i)
        \o << "]", " ", "S", "o", "u", "r", "c", "e", ":", " " >>
        \o get(result.metadata, "sport", UNKNOWN) \o << "/" >>
        \o get(result.metadata, "source", UNKNOWN) \o << "\n" >>
        \o result.text

\* mutant: enumerate(results) without the start index
context_parts_from_zero(results) ==
    [ n \in 1..Len(results) |-> context_part(n - 1, results[n]) ]

\* the loop "for i, result in enumerate(results, 1)"
context_parts(results) ==
    [ n \in 1..Len(results) |-> context_part(n, results[n]) ]

\* "\n\n".join(parts)
RECURSIVE join(_)
join(parts) ==
    IF Len(parts) = 0 THEN << >>
    ELSE IF Len(parts) = 1 THEN parts[1]
    ELSE parts[1] \o << "\n", "\n" >> \o join(Tail(parts))

\* mutant: the guard on an empty result list is missing
format_context_for_llm_unguarded(results) == join(context_parts(results))

format_context_for_llm(results) ==
    IF Len(results) = 0 THEN NO_RESULTS ELSE join(context_parts(results))

\* the results handed to the formatter: texts with and without blank lines
\* and an empty one, metadata with and without the cited keys
FmtTexts == { << >>, << "x" >>, << "p", "\n", "\n", "q" >> }
FmtMetadatas == { [ sport |-> << "a" >>, source |-> << "c", ".", "m", "d" >> ],
                  [ chunk_index |-> << "0" >> ] }
FmtResult == { [ text |-> t, metadata |-> m, distance |-> 0 ] :
                 t \in FmtTexts, m \in FmtMetadatas }
FmtInputs == UNION { [ 1..n -> FmtResult ] : n \in 0..MaxResults }

\* format_context_for_llm(results)
FormatContext ==
    /\ \E results \in FmtInputs :
         /\ fmt_results' = results
         /\ fmt_context' = Returned(format_context_for_llm(results))
    /\ UNCHANGED <<kb_exists, kb_files, model_available, serving, chroma_client,
                   embedding_model, collection, last, thread_vars,
                   split_in, split_out>>

NextFormat == FormatContext

SpecFormat == Init /\ [][NextFormat]_vars

(***************************************************************************)
(* The text splitter on its own: short texts of letters, spaces and line   *)
(* feeds, cut with small chunk sizes.                                      *)
(***************************************************************************)
SplitAlphabet == { "x", " ", "\n" }
SplitTexts == UNION { [ 1..n -> SplitAlphabet ] : n \in 0..MaxTextLen }
\* chunk_size and chunk_overlap of the constructor: the overlap below the
\* size, equal to it and above it
SplitConfigs ==
    UNION { { [ chunk_size |-> size, chunk_overlap |-> overlap ] :
                overlap \in 0..(size + 1) } : size \in 2..MaxChunkSize }

\* RecursiveCharacterTextSplitter(chunk_size, chunk_overlap,
\* separators).split_text(text), called once on one text
SplitText ==
    /\ ~split_out.called /\ ~split_out.raised
    /\ \E text \in SplitTexts, config \in SplitConfigs :
         /\ split_in' = [ text |-> text, chunk_size |-> config.chunk_size,
                          chunk_overlap |-> config.chunk_overlap ]
         /\ split_out' =
              IF text_splitter_rejects(config.chunk_size, config.chunk_overlap)
              THEN Raised
              ELSE Returned(splitter_split_text(text, config.chunk_size,
                                                config.chunk_overlap))
    /\ UNCHANGED <<kb_exists, kb_files, model_available, serving, chroma_client,
                   embedding_model, collection, last, thread_vars,
                   fmt_results, fmt_context>>

NextSplit == SplitText

SpecSplit == Init /\ [][NextSplit]_vars

(***************************************************************************)
(* Properties of ingestion and query (specification Spec).                 *)
(***************************************************************************)
LoadEnded(force_reload, outcome) ==
    /\ last.op = "load"
    /\ last.force_reload = force_reload
    /\ last.outcome = outcome

QueryReturned == last.op = "query" /\ last.outcome = "ok"

\* the chunks of the documents of a tree: category, source name, index, text
TreeChunks(files) ==
    UNION { { [ sport       |-> f.sport,
                source      |-> file_name(f.stem),
                chunk_index |-> i,
                text        |-> split_text(f.content)[i + 1] ] :
                i \in 0..(Len(split_text(f.content)) - 1) } : f \in files }

\* the same view of the chunks a collection holds
StoredChunks(coll) ==
    { [ sport       |-> c.metadata.sport,
        source      |-> c.metadata.source,
        chunk_index |-> c.metadata.chunk_index,
        text        |-> c.document ] : c \in coll.chunks }

\* C1: a second load_knowledge_base(force_reload=False) run right after a
\* first one, the tree unchanged in between, leaves the collection with the
\* chunk ids and the chunk count it had after the first run.
C1_IdempotentIngestion ==
    ( /\ last.op = "load" /\ ~last.force_reload
      /\ last.prev.op = "load" /\ ~last.prev.force_reload )
    => /\ ChunkIds(collection) = last.before.ids
       /\ Count(collection) = Cardinality(last.before.ids)
       /\ collection.exists = last.before.exists

\* the second of two successive unforced loads, the first of which ingested
C1_Witness ==
    /\ LoadEnded(FALSE, "skipped")
    /\ last.prev = [ op |-> "load", force_reload |-> FALSE, outcome |-> "loaded" ]
    /\ Count(collection) > 1

\* C2 as claimed: whenever a sport argument is supplied, whatever string it
\* is, every result carries that sport.
C2_AnySuppliedFilter ==
    (QueryReturned /\ last.sport.some)
    => \A n \in 1..Len(last.results) :
           last.results[n].metadata.sport = last.sport.val

\* C2, amended: whenever a non-empty sport argument is supplied, every
\* result carries that sport.
C2_CategoryIsolation ==
    (QueryReturned /\ last.sport.some /\ last.sport.val # "")
    => \A n \in 1..Len(last.results) :
           last.results[n].metadata.sport = last.sport.val

\* a filtered query that returned results while the collection also holds
\* chunks of another category
C2_Witness ==
    /\ QueryReturned /\ last.sport.some /\ last.sport.val # ""
    /\ Len(last.results) > 0
    /\ \E c \in collection.chunks : c.metadata.sport # last.sport.val

\* the stored chunks a sport argument selects: those of that category, all
\* of them when no category is given
MatchingChunks(coll, sport) ==
    IF sport.some /\ sport.val # ""
    THEN { c \in coll.chunks : c.metadata.sport = sport.val }
    ELSE coll.chunks

\* C3: a query that returns gives exactly min(top_k, number of stored chunks
\* matching the filter) results.
C3_TopKBound ==
    QueryReturned
    => Len(last.results)
         = Min(last.top_k, Cardinality(MatchingChunks(collection, last.sport)))

\* fewer chunks match than were asked for, and all of them are returned
C3_Witness ==
    /\ QueryReturned
    /\ Len(last.results) > 0
    /\ Len(last.results) < last.top_k
    /\ Count(collection) > Len(last.results)

\* C4: the distances of a result sequence are non-decreasing.
C4_RankingOrder ==
    QueryReturned
    => \A n \in 1..(Len(last.results) - 1) :
           last.results[n].distance <= last.results[n + 1].distance

\* a result sequence of two entries at different distances
C4_Witness ==
    /\ QueryReturned
    /\ Len(last.results) > 1
    /\ last.results[1].distance < last.results[2].distance

\* C5: a forced reload right after an ingestion of the same tree stores
\* exactly the chunk ids the first ingestion stored.
C5_DeterministicChunkIds ==
    ( /\ LoadEnded(TRUE, "loaded")
      /\ last.prev.op = "load" /\ last.prev.outcome = "loaded" )
    => ChunkIds(collection) = last.before.ids

\* a forced reload of a tree of two documents right after its ingestion
C5_Witness ==
    /\ LoadEnded(TRUE, "loaded")
    /\ last.prev.op = "load" /\ last.prev.outcome = "loaded"
    /\ Cardinality(kb_files) > 1

\* C6 as claimed: the chunks a load walks over get different ids whenever
\* their (category, source name, chunk index) differ.
C6_UniqueChunkIds ==
    (last.op = "load" /\ last.outcome # "skipped")
    => /\ \A f, g \in kb_files :
            \A i \in 0..(Len(split_text(f.content)) - 1),
               j \in 0..(Len(split_text(g.content)) - 1) :
                <<f.sport, file_name(f.stem), i>> # <<g.sport, file_name(g.stem), j>>
                => chunk_id(f.sport, f.stem, i, 0) # chunk_id(g.sport, g.stem, j, 0)
       /\ Cardinality(ChunkIds(collection)) = Count(collection)

\* C7 as claimed: an unforced load skips ingestion exactly when the
\* collection held at least one chunk when the call began.
C7_SkipIffNonEmpty ==
    (last.op = "load" /\ ~last.force_reload)
    => (last.outcome = "skipped" <=> Cardinality(last.before.ids) > 0)

\* C8: after a forced reload that completed, the collection holds exactly
\* the chunks of the documents now in the tree.
C8_ForcedReloadReplaces ==
    LoadEnded(TRUE, "loaded")
    => /\ StoredChunks(collection) = TreeChunks(kb_files)
       /\ Count(collection) = Cardinality(TreeChunks(kb_files))

\* a forced reload that discarded chunks of a document no longer in the tree
C8_Witness ==
    /\ LoadEnded(TRUE, "loaded")
    /\ \E id \in last.before.ids : id \notin ChunkIds(collection)

(***************************************************************************)
(* Properties of the formatter (specification SpecFormat).                 *)
(***************************************************************************)
\* C9: formatting an empty result sequence gives the sentinel string, and
\* no call returns the empty string.
C9_EmptyResultsSentinel ==
    fmt_context.called
    => /\ Len(fmt_results) = 0 => fmt_context.value = NO_RESULTS
       /\ Len(fmt_context.value) > 0

\* the formatter was called on an empty result sequence
C9_Witness == fmt_context.called /\ Len(fmt_results) = 0

\* the entry the block is to hold for the n-th result: its number, its
\* category/source citation, then its text on the next line
NumberedEntry(n, result) ==
    << "[", ToString(n), "]", " ", "S", "o", "u", "r", "c", "e", ":", " " >>
        \o (IF "sport" \in DOMAIN result.metadata
            THEN result.metadata.sport ELSE UNKNOWN)
        \o << "/" >>
        \o (IF "source" \in DOMAIN result.metadata
            THEN result.metadata.source ELSE UNKNOWN)
        \o << "\n" >> \o result.text

\* where the n-th entry starts in the block when the entries before it are
\* each followed by one blank line
RECURSIVE EntryStart(_, _)
EntryStart(results, n) ==
    IF n = 1 THEN 1
    ELSE EntryStart(results, n - 1)
           + Len(NumberedEntry(n - 1, results[n - 1])) + 2

\* C10: the block formatted from n > 0 results (n below ten) is exactly n
\* entries, numbered 1..n in the order of the results, each the citation of
\* its result followed by its text, with one blank line between consecutive
\* entries and nothing else.
C10_NumberedEntries ==
    (fmt_context.called /\ Len(fmt_results) > 0)
    => LET out  == fmt_context.value
           size == Len(fmt_results)
           end  == EntryStart(fmt_results, size)
                     + Len(NumberedEntry(size, fmt_results[size])) - 1
       IN  /\ Len(out) = end
           /\ \A n \in 1..size :
                SubSeq(out, EntryStart(fmt_results, n),
                       EntryStart(fmt_results, n)
                         + Len(NumberedEntry(n, fmt_results[n])) - 1)
                  = NumberedEntry(n, fmt_results[n])
           /\ \A n \in 2..size :
                /\ out[EntryStart(fmt_results, n) - 2] = "\n"
                /\ out[EntryStart(fmt_results, n) - 1] = "\n"

\* a block of several entries, of different results, one of them with a
\* blank line inside its text
C10_Witness ==
    /\ fmt_context.called
    /\ Len(fmt_results) > 1
    /\ fmt_results[1] # fmt_results[2]
    /\ fmt_results[1].text = << "p", "\n", "\n", "q" >>

\* C11 as claimed: a query_knowledge call with an empty query text is
\* rejected with a fault and never comes to encode the query.
C11_EmptyQueryRejected ==
    (last.op = "query" /\ last.query = "")
    => (last.outcome = "raised" /\ ~last.encoded)

\* C12 as claimed: a query_knowledge call with a top_k of zero or less is
\* rejected with a fault.
C12_TopKValidated ==
    (last.op = "query" /\ last.top_k <= 0) => last.outcome = "raised"

(***************************************************************************)
(* Properties of the service (specification SpecService).                  *)
(***************************************************************************)
\* a startup event just ran with the knowledge-base root missing or the
\* embedding model impossible to load
StartupFault ==
    /\ last.op = "startup"
    /\ (~kb_exists \/ ~model_available)

\* C13 as claimed: when the knowledge-base root is missing or the embedding
\* model cannot be loaded during startup, the application does not come to
\* serve requests.
C13_StartupHalts == StartupFault => ~serving

\* C13, amended: when the knowledge-base root is missing or the embedding
\* model cannot be loaded during startup, load_knowledge_base raises, the
\* startup event completes all the same, and the application serves
\* requests with no chunk in its store.
C13_StartupContinues ==
    StartupFault
    => /\ last.outcome = "raised"
       /\ serving
       /\ Count(collection) = 0

\* a startup without the embedding model, the tree in place
C13_Witness ==
    /\ StartupFault
    /\ ~model_available
    /\ kb_files # {}
    /\ serving

\* a query_knowledge call just ran with no collection in the store
QueryWithoutCollection == last.op = "query" /\ ~last.before.exists

\* C14 as claimed: a startup event whose load_knowledge_base raised
\* completes and the application serves requests; a query_knowledge call
\* that finds no collection returns an empty list and does not raise.
C14_GracefulDegradation ==
    /\ (last.op = "startup" /\ last.outcome = "raised") => serving
    /\ QueryWithoutCollection => (last.outcome = "ok" /\ last.results = << >>)

Readable(files) == { f \in files : f.readable }

\* no two of the files give a chunk the same id
DistinctIds(files) ==
    \A f, g \in files :
        f # g => chunk_id(f.sport, f.stem, 0, 0) # chunk_id(g.sport, g.stem, 0, 0)

\* C15 as claimed: a load that walks a tree in which one file cannot be
\* read and another can skips the unreadable file: it completes without
\* raising and stores every chunk of every readable file.
C15_UnreadableSkipped ==
    ( /\ last.op = "load" /\ last.outcome # "skipped"
      /\ kb_exists
      /\ Readable(kb_files) # {}
      /\ Readable(kb_files) # kb_files
      /\ DistinctIds(Readable(kb_files)) )
    => /\ last.outcome = "loaded"
       /\ StoredChunks(collection) = TreeChunks(Readable(kb_files))

\* C16 as claimed (specification SpecService): a startup event in a process
\* started after an ingestion stored chunks finds the collection, skips the
\* ingestion and leaves the chunk ids and the count as they were before the
\* restart.
C16_PersistedAcrossRestart ==
    (last.op = "startup" /\ last.before.ids # {})
    => /\ last.outcome = "skipped"
       /\ ChunkIds(collection) = last.before.ids
       /\ Count(collection) = Cardinality(last.before.ids)

(***************************************************************************)
(* Properties of concurrent initialisation (specification SpecThreads).    *)
(***************************************************************************)
\* C18 as claimed: however the threads that call get_embedding_model before
\* the model is loaded interleave, the model is constructed once, and all
\* the threads that have returned hold that one instance.
C18_SingleInitialization ==
    /\ constructed <= 1
    /\ \A t, u \in Threads :
         (callers[t].pc = "returned" /\ callers[u].pc = "returned")
         => callers[t].got = callers[u].got

(***************************************************************************)
(* Properties of the text splitter (specification SpecSplit).              *)
(***************************************************************************)
\* the chunks put one after the other, each without the part of it that
\* lies in front of the end of its predecessor
RECURSIVE Rebuilt(_, _, _)
Rebuilt(text, chunks, covered) ==
    IF chunks = << >> THEN << >>
    ELSE LET from == IF Head(chunks).first > covered
                     THEN Head(chunks).first ELSE covered
         IN  SubSeq(text, from + 1, Head(chunks).last)
               \o Rebuilt(text, Tail(chunks),
                          IF Head(chunks).last > covered
                          THEN Head(chunks).last ELSE covered)

RECURSIVE SumChunks(_)
SumChunks(files) ==
    IF files = {} THEN 0
    ELSE LET f == CHOOSE g \in files : TRUE
         IN  Len(split_text(f.content)) + SumChunks(files \ {f})

\* an ingestion just completed into a store that held no chunk
IngestedIntoEmpty ==
    /\ last.op = "load"
    /\ last.outcome = "loaded"
    /\ last.before.ids = {}

\* a tree of one document of 1200 characters in one category and one of
\* 400 characters in another
ExampleTree(files) ==
    \E f, g \in files :
        /\ files = {f, g}
        /\ f.sport # g.sport
        /\ f.content.length = 1200
        /\ g.content.length = 400

\* C20 as claimed: after an ingestion into an empty store the count is the
\* sum of the chunk counts of the documents, and it is 3 + 1 = 4 for a tree
\* of one 1200-character and one 400-character document in two categories.
C20_ChunkCount ==
    IngestedIntoEmpty
    => /\ Count(collection) = SumChunks(kb_files)
       /\ ExampleTree(kb_files) => Count(collection) = 3 + 1

\* C20, amended: after an ingestion into an empty store the count is the
\* sum of the chunk counts of the documents, and it is 3 + 1 = 4 for a tree
\* of one 1200-character and one 400-character document in two categories
\* when the documents hold no separator.
C20_ChunkCountOfPlainText ==
    IngestedIntoEmpty
    => /\ Count(collection) = SumChunks(kb_files)
       /\ ( /\ ExampleTree(kb_files)
            /\ \A f \in kb_files : f.content.breaks = {} )
          => Count(collection) = 3 + 1

\* the example tree of plain documents, ingested
C20_Witness ==
    /\ IngestedIntoEmpty
    /\ ExampleTree(kb_files)
    /\ \A f \in kb_files : f.content.breaks = {}
    /\ Count(collection) = 4

(***************************************************************************)
(* Short and empty documents (specification SpecIngest).                   *)
(***************************************************************************)
\* a load just walked a tree in which every file can be read and no two
\* files give a chunk the same id
WalkedReadableTree ==
    /\ last.op = "load" /\ last.outcome # "skipped"
    /\ kb_exists
    /\ kb_files # {}
    /\ Readable(kb_files) = kb_files
    /\ DistinctIds(kb_files)

\* C21 as claimed: a document no longer than chunk_size is split into one
\* chunk when it is not empty and into none when it is empty, and a load
\* that walks a tree with an empty document in it does not raise.
C21_ShortAndEmptyDocuments ==
    WalkedReadableTree
    => /\ \A f \in kb_files :
            f.content.length <= CHUNK_SIZE
            => Len(split_text(f.content))
                 = (IF f.content.length = 0 THEN 0 ELSE 1)
       /\ (\E f \in kb_files : f.content.length = 0) => last.outcome # "raised"

(***************************************************************************)
(* Configurations of the splitter (specification SpecSplit).               *)
(***************************************************************************)
\* C22 as claimed: a splitter configured with chunk_overlap >= chunk_size
\* is rejected with a fault: it never returns from split_text, and no chunk
\* comes out of it.
C22_OverlapRejected ==
    ( /\ split_in.chunk_overlap >= split_in.chunk_size
      /\ (split_out.called \/ split_out.raised) )
    => /\ split_out.raised
       /\ split_out.value = << >>

(***************************************************************************)
(* What the store records about an ingestion (specification Spec).         *)
(***************************************************************************)
\* the values recorded with the collection, whatever their keys
Recorded(coll) == { pair[2] : pair \in coll.metadata }

\* C23 as claimed: after an ingestion the store holds a record of the
\* embedding model id, the chunk size and the chunk overlap it was made
\* with, against which a later start can compare its configuration.
C23_ConfigurationRecorded ==
    (last.op = "load" /\ last.outcome = "loaded")
    => /\ EMBEDDING_MODEL \in Recorded(collection)
       /\ ToString(CHUNK_SIZE) \in Recorded(collection)
       /\ ToString(CHUNK_OVERLAP) \in Recorded(collection)

(***************************************************************************)
(* Chunk indices (specification SpecIngest).                               *)
(***************************************************************************)
\* the stored chunks of the source document a stored chunk comes from
SameSource(coll, c) ==
    { d \in coll.chunks : /\ d.metadata.sport = c.metadata.sport
                          /\ d.metadata.source = c.metadata.source }

\* C24: every stored chunk has 0 <= chunk_index < total_chunks; the
\* chunk_index values stored for its source document are exactly
\* 0..total_chunks-1, and total_chunks is the number of chunks stored for
\* that source.
C24_ChunkIndexRange ==
    \A c \in collection.chunks :
        /\ 0 <= c.metadata.chunk_index
        /\ c.metadata.chunk_index < c.metadata.total_chunks
        /\ { d.metadata.chunk_index : d \in SameSource(collection, c) }
             = 0..(c.metadata.total_chunks - 1)
        /\ Cardinality(SameSource(collection, c)) = c.metadata.total_chunks

\* the store holds a document of one chunk and one of several
C24_Witness ==
    /\ \E c \in collection.chunks : c.metadata.total_chunks = 1
    /\ \E c \in collection.chunks :
         c.metadata.total_chunks > 2 /\ c.metadata.chunk_index = 2

(***************************************************************************)
(* What a load leaves alone (specification SpecIngest).                    *)
(***************************************************************************)
\* C25: a load_knowledge_base(force_reload=False) that finds a populated
\* collection leaves the store exactly as it was, chunk for chunk, whatever
\* the tree holds by then.
C25_UnforcedLoadChangesNothing ==
    [][ ( /\ last'.op = "load" /\ ~last'.force_reload
          /\ Count(collection) > 0 )
        => collection' = collection ]_vars

\* an unforced load that skipped while the store held chunks of a document
\* no longer in the tree and none of a document since added to it
C25_Witness ==
    /\ LoadEnded(FALSE, "skipped")
    /\ Count(collection) > 0
    /\ \E c \in collection.chunks :
         \A f \in kb_files : ~ ( /\ f.sport = c.metadata.sport
                                 /\ file_name(f.stem) = c.metadata.source )
    /\ \E f \in kb_files :
         /\ f.readable /\ f.content.length > 0
         /\ \A c \in collection.chunks : ~ ( /\ f.sport = c.metadata.sport
                                            /\ file_name(f.stem) = c.metadata.source )

\* C26 as claimed: a load_knowledge_base(force_reload=True) that raises
\* leaves the collection with the contents it had when the call began.
C26_AtomicRebuild ==
    (LoadEnded(TRUE, "raised") /\ last.before.ids # {})
    => /\ collection.exists
       /\ ChunkIds(collection) = last.before.ids

(***************************************************************************)
(* What a query leaves alone (specification Spec).                         *)
(***************************************************************************)
\* C27: a query_knowledge call, whatever its text, filter and top_k and
\* however it ends, leaves the collection as it was: the same chunk ids,
\* texts, metadata and embeddings, hence the same count; so does any
\* sequence of such calls.
C27_QueryReadOnly ==
    [][ last'.op = "query" => collection' = collection ]_vars

\* a query that returned several results from a store that holds more
C27_Witness ==
    /\ QueryReturned
    /\ Len(last.results) > 1
    /\ last.before.ids = ChunkIds(collection)
    /\ Count(collection) > Len(last.results)

(***************************************************************************)
(* The singletons under sequential calls (specification SpecSingletons).   *)
(***************************************************************************)
\* C28: over any sequence of calls made one after the other, the embedding
\* model is constructed at most once and the store client opened at most
\* once; every call of a getter that returns gives the object the first
\* construction made, and as long as every call of a getter has raised,
\* its global is still None.
C28_SequentialSingletons ==
    /\ constructed <= 1
    /\ opened <= 1
    /\ \A i, j \in 1..Len(calls) :
         (calls[i].fn = calls[j].fn /\ ~calls[i].raised /\ ~calls[j].raised)
         => calls[i].value = calls[j].value
    /\ \A i \in 1..Len(calls) : ~calls[i].raised => calls[i].value = 1
    /\ (\A i \in 1..Len(calls) :
           calls[i].fn = "get_embedding_model" => calls[i].raised)
       => model_instance = 0
    /\ (\A i \in 1..Len(calls) :
           calls[i].fn = "get_chroma_client" => calls[i].raised)
       => client_instance = 0

\* get_embedding_model raised on a first call and returned on two later
\* ones, and get_chroma_client returned as well
C28_Witness ==
    /\ \E i, j, k \in 1..Len(calls) :
         /\ i < j /\ j < k
         /\ calls[i].fn = "get_embedding_model" /\ calls[i].raised
         /\ calls[j].fn = "get_embedding_model" /\ ~calls[j].raised
         /\ calls[k].fn = "get_embedding_model" /\ ~calls[k].raised
    /\ \E i \in 1..Len(calls) :
         calls[i].fn = "get_chroma_client" /\ ~calls[i].raised

(***************************************************************************)
(* What a result carries (specification Spec).                             *)
(***************************************************************************)
\* C29: every result a query returns is a chunk of the store: its text is
\* the text of that chunk and its metadata is what ingestion recorded for
\* it, the category (the directory of the source file), the source name
\* and the chunk index among them.
C29_ResultsAreStoredChunks ==
    QueryReturned
    => \A n \in 1..Len(last.results) :
           \E c \in collection.chunks :
               /\ last.results[n].text = c.document
               /\ last.results[n].metadata = c.metadata
               /\ last.results[n].metadata.sport = c.metadata.sport
               /\ last.results[n].metadata.source = c.metadata.source
               /\ last.results[n].metadata.chunk_index = c.metadata.chunk_index
               /\ \E path \in Paths :
                    /\ c.metadata.sport = path[1]
                    /\ c.metadata.source = file_name(path[2])
                    /\ c.id = chunk_id(path[1], path[2], c.metadata.chunk_index, 0)

\* two results of one query that come from different source documents
C29_Witness ==
    /\ QueryReturned
    /\ Len(last.results) > 1
    /\ << last.results[1].metadata.sport, last.results[1].metadata.source >>
         # << last.results[2].metadata.sport, last.results[2].metadata.source >>

(***************************************************************************)
(* The single add (specification SpecIngest).                              *)
(***************************************************************************)
\* C30: the collection changes only in a load, and a load leaves it as it
\* was, or without any chunk, or with the chunks of every document of the
\* tree it walked: the store is never left with the chunks of some of the
\* documents only, whatever step of the load fails.
C30_AllOrNothing ==
    [][ IF last'.op = "load"
        THEN \/ collection' = collection
             \/ Count(collection') = 0
             \/ /\ StoredChunks(collection') = TreeChunks(kb_files)
                /\ Count(collection') = Cardinality(TreeChunks(kb_files))
        ELSE collection' = collection ]_vars

\* a load that raised in a tree with a file it could read and a file it
\* could not, over a store that had held chunks: no chunk is stored
C30_Witness ==
    /\ last.op = "load" /\ last.outcome = "raised"
    /\ last.before.ids # {}
    /\ Readable(kb_files) # {}
    /\ Readable(kb_files) # kb_files
    /\ \A f \in Readable(kb_files) : f.content.length > 0
    /\ collection.exists
    /\ Count(collection) = 0

====
